---- MODULE Spec2Model ----
(***************************************************************************)
(* A model of thumt/models/transformer.py: the Transformer's embedding     *)
(* tables and their aliasing, the incremental decoding state, and the      *)
(* encode / decode / forward entry points.                                 *)
(*                                                                         *)
(* Tensors are modelled symbolically.  A hidden vector is a term           *)
(* <<tag, n, children>> of the free algebra over the operators the code    *)
(* applies (embedding lookup, scaling, positional encoding, attention,     *)
(* feed-forward, layer norm, projection): two vectors are equal in the     *)
(* model iff they are built the same way from the same inputs, which is    *)
(* what "the operators are deterministic functions of their inputs" gives. *)
(* A tensor [batch=1, length, hidden] is a sequence of vectors.            *)
(***************************************************************************)
EXTENDS Integers, Sequences, FiniteSets, TLC

VARIABLES
    params,     \* the configuration bundle, fixed at construction
    training,   \* nn.Module's ambient train/eval flag (self.training)
    ref,        \* table name -> storage block (which Parameter object it is)
    store,      \* storage block -> contents
    lastw,      \* the last in-place write to a table, as its caller saw it
    state,      \* the caller's incremental state (the dict of empty_state)
    sess,       \* history of the calls made on `state` since it was created
    last        \* the last entry-point call: its inputs, locals and outcome

vars == <<params, training, ref, store, lastw, state, sess, last>>

----------------------------------------------------------------------------
(* Bounds of the model *)

MaxLen == 3         \* longest target sequence handed to decode
MaxCalls == 3       \* decode calls made on one incremental state
MaxLayers == 2      \* num_encoder_layers, num_decoder_layers range over 1..MaxLayers
MaxWrites == 2      \* in-place table writes after construction

(* Program constants *)

NEG_INF == -1000000000

Sources == {<<5, 7, 0>>}               \* 0 is the padding token
Garbage == {-1, -2}            \* what freshly allocated storage may hold
TableNames == {"source", "target", "softmax"}
Blocks == 1..3

Range(s) == {s[i] : i \in DOMAIN s}
Prefix(s, n) == SubSeq(s, 1, n)

\* The sentence being decoded, 2 3 4 ..., and what a caller hands to decode
\* at some step: the prefix generated so far, or the newest token alone.
Sentence == [i \in 1..MaxLen |-> i + 1]
Targets ==
    {Prefix(Sentence, n) : n \in 1..MaxLen} \cup {<<Sentence[n]>> : n \in 1..MaxLen}
IsPrefix(s, t) == Len(s) <= Len(t) /\ Prefix(t, Len(s)) = s
Last(s) == s[Len(s)]

----------------------------------------------------------------------------
(* Symbolic tensors *)

\* The vector tag(n, ch): the term itself.
T(tag, n, ch) == <<tag, n, ch>>
Zero == T("zero", 0, <<>>)
\* A sequence given by a rule, as an explicit tuple.
Tup(f) == f \o <<>>
Map1(Op(_), xs) == Tup([i \in 1..Len(xs) |-> Op(xs[i])])

----------------------------------------------------------------------------
(* Embedding tables: build_embedding and reset_parameters *)

Unallocated == [val |-> 0, init |-> FALSE, used |-> FALSE]
Empty(g) == [val |-> g, init |-> FALSE, used |-> TRUE]        \* torch.empty
Drawn(n) == [val |-> n, init |-> TRUE, used |-> TRUE]         \* nn.init.normal_

\* Which storage block each table name is bound to.
BuildRef_TargetAlwaysShared(p) ==
    [source |-> 1, target |-> 1,
     softmax |-> IF p.shared_embedding_and_softmax_weights THEN 1 ELSE 3]

BuildRef(p) ==
    LET tgt == IF p.shared_source_target_embedding THEN 1 ELSE 2
    IN  [source |-> 1,
         target |-> tgt,
         softmax |-> IF p.shared_embedding_and_softmax_weights THEN tgt ELSE 3]

\* The storage after build_embedding: every block a name is bound to is
\* freshly allocated (torch.empty), holding whatever g gives it.
BuildStore(p, g) ==
    [b \in Blocks |-> IF b \in Range(BuildRef(p)) THEN Empty(g[b]) ELSE Unallocated]

\* nn.init.normal_ on the table `name`, in place: the block gets value n.
InitNormal(r, st, name, n) == [st EXCEPT ![r[name]] = Drawn(n)]

\* reset_parameters: source first, then target, drawing values n+1 and n+2.
ResetStore(r, st, n) ==
    InitNormal(r, InitNormal(r, st, "source", n + 1), "target", n + 2)

Read(name) == store[ref[name]].val
Weights(name) == T("w", Read(name), <<>>)

----------------------------------------------------------------------------
(* Bias / mask builders *)

\* torch.ones([length, length]) * inf
OnesTimes(length, inf) ==
    Tup([i \in 1..length |-> Tup([j \in 1..length |-> 1 * inf])])

\* torch.triu(m, diagonal): keeps the elements with column - row >= diagonal.
Triu(m, diagonal) ==
    Tup([i \in 1..Len(m) |-> Tup([j \in 1..Len(m[i]) |->
        IF j - i >= diagonal THEN m[i][j] ELSE 0])])

causal_bias_diag0(length) == Triu(OnesTimes(length, NEG_INF), 0)

causal_bias(length) == Triu(OnesTimes(length, NEG_INF), 1)

\* torch.ne(src_seq, 0).float()
SrcMask(src_seq) ==
    Tup([i \in 1..Len(src_seq) |-> IF src_seq[i] # 0 THEN 1 ELSE 0])

\* (1 - mask) * inf, as one row broadcast over the query positions
masking_bias(mask) == << Tup([i \in 1..Len(mask) |-> (1 - mask[i]) * NEG_INF]) >>

----------------------------------------------------------------------------
(* Collaborators from thumt.modules *)

\* nn.Dropout: the identity in eval mode, a random mask (seed) in training.
Dropout(y, train, seed) == IF train THEN T("drop", seed, <<y>>) ELSE y

\* PositionalEmbedding: adds a signal that depends on the position only.
PositionalEmbedding(x) == Tup([i \in 1..Len(x) |-> T("pos", i - 1, <<x[i]>>)])

\* An additive bias of nr x nc entries fits nq queries and nk keys when each
\* dimension is equal or broadcast from 1.
BiasFits(bias, nq, nk) ==
    /\ Len(bias) \in {1, nq}
    /\ \A r \in 1..Len(bias) : Len(bias[r]) \in {1, nk}

BiasAt(bias, i, j) ==
    LET row == bias[IF Len(bias) = 1 THEN 1 ELSE i]
    IN  row[IF Len(row) = 1 THEN 1 ELSE j]

\* The keys (or values) query i attends over: those its bias row permits.
RECURSIVE PermittedFrom(_, _, _, _)
PermittedFrom(bias, i, ks, j) ==
    IF j > Len(ks) THEN <<>>
    ELSE (IF BiasAt(bias, i, j) = 0 THEN <<ks[j]>> ELSE <<>>)
         \o PermittedFrom(bias, i, ks, j + 1)
Permitted(bias, i, ks) == PermittedFrom(bias, i, ks, 1)

\* What an attention output depends on besides its query: the permitted
\* keys ks and values vs.  When they are the projections, pairwise, of the
\* same source vectors (as they are unless the two caches got out of step),
\* the term lists those sources once; otherwise it lists keys and values.
Attended(kind, l, ks, vs) ==
    IF /\ Len(ks) = Len(vs)
       /\ \A j \in 1..Len(ks) :
             /\ ks[j] = T(kind \o ".k", l, ks[j][3])
             /\ vs[j] = T(kind \o ".v", l, ks[j][3])
    THEN T("attended", Len(ks), Tup([j \in 1..Len(ks) |-> ks[j][3][1]]))
    ELSE T("keys+values", Len(ks), ks \o vs)

KProj(kind, l, src) == Tup([j \in 1..Len(src) |-> T(kind \o ".k", l, <<src[j]>>)])
VProj(kind, l, src) == Tup([j \in 1..Len(src) |-> T(kind \o ".v", l, <<src[j]>>)])

\* Scaled dot-product attention of the queries x over keys k and values v
\* under an additive bias; a bias that does not broadcast raises.
Attend(kind, l, x, bias, k, v) ==
    IF ~BiasFits(bias, Len(x), Len(k)) \/ Len(k) # Len(v)
    THEN [status |-> "RuntimeError", y |-> <<>>, k |-> <<>>, v |-> <<>>]
    ELSE [status |-> "ok",
          y |-> Tup([i \in 1..Len(x) |->
                    T(kind, l, <<x[i], Attended(kind, l, Permitted(bias, i, k),
                                                Permitted(bias, i, v))>>)]),
          k |-> k, v |-> v]

\* MultiHeadAttention.forward(query, bias, memory, kv).  Keys and values are
\* projections of memory (cross-attention) or of the query (self-attention);
\* with kv, self-attention appends the new steps to the cached ones and
\* returns the extended sequences.
MultiHeadAttention(kind, l, x, bias, hasMemory, memory, hasKv, kv) ==
    IF hasMemory
    THEN Attend(kind, l, x, bias, KProj(kind, l, memory), VProj(kind, l, memory))
    ELSE IF hasKv
    THEN Attend(kind, l, x, bias, kv.k \o KProj(kind, l, x), kv.v \o VProj(kind, l, x))
    ELSE Attend(kind, l, x, bias, KProj(kind, l, x), VProj(kind, l, x))

\* FeedForward: position-wise.
FeedForward(kind, l, x) == Tup([i \in 1..Len(x) |-> T(kind, l, <<x[i]>>)])

\* layer_norm(x + dropout(y)), position-wise.  When y was computed from x
\* (x is the first input of the term y), the term does not list x again.
AddNorm(kind, l, x, y, train, seed) ==
    Tup([i \in 1..Len(x) |->
        IF y[i][3] # <<>> /\ y[i][3][1] = x[i]
        THEN T(kind \o ".ln", l, <<Dropout(y[i], train, seed)>>)
        ELSE T(kind \o ".ln+", l, <<x[i], Dropout(y[i], train, seed)>>)])

----------------------------------------------------------------------------
(* Sublayers, layers and stacks *)

\* The end of AttentionSubLayer.forward on the uncached path: r is what the
\* attention returned, the cache is left as it was.
SubLayerUncached(kind, l, x, r, cache, train, seed) ==
    IF r.status # "ok"
    THEN [status |-> r.status, x |-> x, cache |-> cache]
    ELSE [status |-> "ok", x |-> AddNorm(kind, l, x, r.y, train, seed), cache |-> cache]

\* ... and on the cached path: state["k"], state["v"] = k, v.
SubLayerCached(kind, l, x, r, cache, train, seed) ==
    IF r.status # "ok"
    THEN [status |-> r.status, x |-> x, cache |-> cache]
    ELSE [status |-> "ok", x |-> AddNorm(kind, l, x, r.y, train, seed),
          cache |-> [k |-> r.k, v |-> r.v]]

AttentionSubLayer_IgnoresFlag(kind, l, x, bias, hasMemory, memory, hasState, cache, train, seed) ==
    IF ~hasState
    THEN SubLayerUncached(kind, l, x,
             MultiHeadAttention(kind, l, x, bias, hasMemory, memory, FALSE, cache),
             cache, train, seed)
    ELSE SubLayerCached(kind, l, x,
             MultiHeadAttention(kind, l, x, bias, hasMemory, memory, TRUE, cache),
             cache, train, seed)

\* AttentionSubLayer.forward(x, bias, memory, state): `cache` is the layer's
\* {"k", "v"} dict, written in place only on the cached path.
AttentionSubLayer(kind, l, x, bias, hasMemory, memory, hasState, cache, train, seed) ==
    IF train \/ ~hasState
    THEN SubLayerUncached(kind, l, x,
             MultiHeadAttention(kind, l, x, bias, hasMemory, memory, FALSE, cache),
             cache, train, seed)
    ELSE SubLayerCached(kind, l, x,
             MultiHeadAttention(kind, l, x, bias, hasMemory, memory, TRUE, cache),
             cache, train, seed)

FFNSubLayer(kind, l, x, train, seed) ==
    AddNorm(kind, l, x, FeedForward(kind, l, x), train, seed)

NoCache == [k |-> <<>>, v |-> <<>>]

TransformerEncoderLayer(l, x, bias, train, seed) ==
    FFNSubLayer("enc.ffn", l,
        AttentionSubLayer("enc.self", l, x, bias, FALSE, <<>>, FALSE, NoCache,
                          train, seed).x,
        train, seed)

RECURSIVE EncoderFrom(_, _, _, _, _, _)
EncoderFrom(i, n, x, bias, train, seed) ==
    IF i = n THEN x
    ELSE EncoderFrom(i + 1, n, TransformerEncoderLayer(i, x, bias, train, seed),
                     bias, train, seed)

\* TransformerEncoder: num_encoder_layers layers, in order.
TransformerEncoder(p, x, bias, train, seed) ==
    EncoderFrom(0, p.num_encoder_layers, x, bias, train, seed)

\* The decoder layer after its attention over the encoder output (c).
LayerAfterEncdec(l, x, cache, c, train, seed) ==
    IF c.status # "ok"
    THEN [status |-> c.status, x |-> x, cache |-> cache]
    ELSE [status |-> "ok", x |-> FFNSubLayer("dec.ffn", l, c.x, train, seed),
          cache |-> cache]

\* The decoder layer after its self-attention (a).
LayerAfterSelf(l, x, a, encdec_bias, memory, train, seed) ==
    IF a.status # "ok" THEN a
    ELSE LayerAfterEncdec(l, x, a.cache,
             AttentionSubLayer("dec.encdec", l, a.x, encdec_bias, TRUE, memory,
                               FALSE, NoCache, train, seed),
             train, seed)

\* TransformerDecoderLayer.__call__: cached self-attention, then uncached
\* attention over the encoder output, then the feed-forward sublayer.
TransformerDecoderLayer(l, x, attn_bias, encdec_bias, memory, hasState, cache, train, seed) ==
    LayerAfterSelf(l, x,
        AttentionSubLayer("dec.self", l, x, attn_bias, FALSE, <<>>,
                          hasState, cache, train, seed),
        encdec_bias, memory, train, seed)

\* The number of layers TransformerDecoder.__init__ builds.
DecoderDepth(p) == p.num_encoder_layers

\* TransformerDecoder.forward: layer i is handed state["decoder"]["layer_i"];
\* the lookup raises KeyError when the state has no such slot, after the
\* layers before it have run.  r is what layer i returned.
RECURSIVE DecoderFrom(_, _, _, _, _, _, _, _, _)
RECURSIVE DecoderAfter(_, _, _, _, _, _, _, _, _, _)
DecoderAfter(i, n, x, attn_bias, encdec_bias, memory, dec, r, train, seed) ==
    IF r.status # "ok"
    THEN [status |-> r.status, x |-> x, decoder |-> [dec EXCEPT ![i] = r.cache]]
    ELSE DecoderFrom(i + 1, n, r.x, attn_bias, encdec_bias, memory,
                     [dec EXCEPT ![i] = r.cache], train, seed)

DecoderFrom(i, n, x, attn_bias, encdec_bias, memory, dec, train, seed) ==
    IF i = n THEN [status |-> "ok", x |-> x, decoder |-> dec]
    ELSE IF i \notin DOMAIN dec THEN [status |-> "KeyError", x |-> x, decoder |-> dec]
    ELSE DecoderAfter(i, n, x, attn_bias, encdec_bias, memory, dec,
             TransformerDecoderLayer(i, x, attn_bias, encdec_bias, memory,
                                     TRUE, dec[i], train, seed),
             train, seed)

TransformerDecoder(p, x, attn_bias, encdec_bias, memory, dec, train, seed) ==
    DecoderFrom(0, DecoderDepth(p), x, attn_bias, encdec_bias, memory, dec, train, seed)

----------------------------------------------------------------------------
(* The incremental state *)

\* The dropout mask a call draws in training mode; none is drawn in eval mode.
Seeds == {1}
SeedsNow == IF training THEN Seeds ELSE {0}
LayerCounts == 1..MaxLayers

\* The number of cache slots empty_state allocates.
StateSlots(p) == p.num_decoder_layers

\* Transformer.empty_state: one empty {"k", "v"} cache per slot "layer_i",
\* and no "encoder_output" / "enc_attn_bias" key yet.
empty_state(p) ==
    [alive |-> TRUE, encoded |-> FALSE,
     encoder_output |-> <<>>, enc_attn_bias |-> <<>>,
     decoder |-> [i \in 0..(StateSlots(p) - 1) |-> NoCache]]

\* Before the caller has made any state.
NoState ==
    [alive |-> FALSE, encoded |-> FALSE,
     encoder_output |-> <<>>, enc_attn_bias |-> <<>>,
     decoder |-> <<>>]

HasKey_Always(st, key) == TRUE

\* `key in state` for the two keys encode sets.
HasKey(st, key) == st.encoded

----------------------------------------------------------------------------
(* Transformer.encode and Transformer.decode *)

\* embedding(seq, table) * hidden_size ** 0.5
ScaledEmbedding(seq, table) ==
    Tup([i \in 1..Len(seq) |-> T("scale", 0, <<T("emb", seq[i], <<Weights(table)>>)>>)])

DropoutAll(x, train, seed) == Tup([i \in 1..Len(x) |-> Dropout(x[i], train, seed)])

\* inputs = embedding(src_seq, source_embedding) * hidden_size ** 0.5 + bias
EncoderInput(src_seq) ==
    Map1(LAMBDA e : T("plus_bias", 0, <<e>>), ScaledEmbedding(src_seq, "source"))

encode(src_seq, st, train, seed) ==
    [st EXCEPT !.encoded = TRUE,
               !.encoder_output =
                    TransformerEncoder(params,
                        DropoutAll(PositionalEmbedding(EncoderInput(src_seq)), train, seed),
                        masking_bias(SrcMask(src_seq)), train, seed),
               !.enc_attn_bias = masking_bias(SrcMask(src_seq))]

DecoderInput_ShiftRight(targets) == <<Zero>> \o Prefix(targets, Len(targets) - 1)

DecoderInput_NoShift(targets) == targets

\* torch.cat([zeros of one step, targets[:, 1:, :]], dim=1)
DecoderInput(targets) == <<Zero>> \o Tail(targets)

InferSlice_First(x) == <<x[1]>>

\* x[:, -1:, :] and bias[:, :, -1:, :]: the last step, the last row.
InferSlice(x) == <<Last(x)>>

\* torch.matmul(softmax_weights, decoder_output), one row per position
Project(x) ==
    Tup([i \in 1..Len(x) |-> T("logit", 0, <<Weights("softmax"), x[i]>>)])

Failed(status, st, decoder_input, dec_attn_bias) ==
    [status |-> status, logits |-> <<>>, state |-> st,
     decoder_input |-> decoder_input, dec_attn_bias |-> dec_attn_bias]

\* The end of decode: r is what the Decoder Stack returned; the caches it
\* wrote are the state's, whether or not it raised.
DecodeProject(st, shifted, full_bias, r) ==
    IF r.status # "ok"
    THEN Failed(r.status, [st EXCEPT !.decoder = r.decoder], shifted, full_bias)
    ELSE [status |-> "ok", logits |-> Project(r.x),
          state |-> [st EXCEPT !.decoder = r.decoder],
          decoder_input |-> shifted, dec_attn_bias |-> full_bias]

\* decode from the positional encoding on: shifted is the decoder input,
\* full_bias the causal bias over the whole target length.
DecodeStack(st, mode, train, seed, shifted, full_bias) ==
    IF ~HasKey(st, "encoder_output") THEN Failed("KeyError", st, shifted, full_bias)
    ELSE DecodeProject(st, shifted, full_bias,
             TransformerDecoder(params,
                 IF mode = "infer"
                 THEN InferSlice(DropoutAll(PositionalEmbedding(shifted), train, seed))
                 ELSE DropoutAll(PositionalEmbedding(shifted), train, seed),
                 IF mode = "infer" THEN InferSlice(full_bias) ELSE full_bias,
                 st.enc_attn_bias, st.encoder_output, st.decoder, train, seed))

decode(tgt_seq, st, mode, train, seed) ==
    IF ~HasKey(st, "enc_attn_bias") THEN Failed("KeyError", st, <<>>, <<>>)
    ELSE DecodeStack(st, mode, train, seed,
             DecoderInput(ScaledEmbedding(tgt_seq, "target")),
             causal_bias(Len(tgt_seq)))

\* Transformer.forward: a state of its own, encoded, decoded in mode "train".
forward(src_seq, tgt_seq, train, seed) ==
    decode(tgt_seq, encode(src_seq, empty_state(params), train, seed),
           "train", train, seed)

----------------------------------------------------------------------------
(* Initial state: a constructed Transformer, no incremental state yet *)

Configs ==
    [num_encoder_layers : LayerCounts, num_decoder_layers : LayerCounts,
     shared_source_target_embedding : BOOLEAN,
     shared_embedding_and_softmax_weights : BOOLEAN]

NoWrite == [name |-> "none", val |-> 0, before |-> [t \in TableNames |-> 0], n |-> 2]

\* n_infer, n_train: the decode calls of each mode made on the state since it
\* was encoded.  clean: dropout was inactive throughout, that is encode ran
\* once, in eval mode, before the first decode call, and every decode call
\* so far was made in eval mode with mode "infer" and returned logits; fed
\* lists the targets of those calls.
NoSess == [n_infer |-> 0, n_train |-> 0, source |-> <<>>,
           clean |-> FALSE, fed |-> <<>>]

NewSess == [NoSess EXCEPT !.clean = TRUE]

Call(op, mode, tgt, status, pre, was_encoded, decoder_input, dec_attn_bias, logits) ==
    [op |-> op, mode |-> mode, flag |-> training, tgt |-> tgt, status |-> status,
     pre |-> pre, was_encoded |-> was_encoded, decoder_input |-> decoder_input,
     dec_attn_bias |-> dec_attn_bias, logits |-> logits]

NoCall ==
    [op |-> "none", mode |-> "none", flag |-> TRUE, tgt |-> <<>>, status |-> "ok",
     pre |-> <<>>, was_encoded |-> FALSE, decoder_input |-> <<>>,
     dec_attn_bias |-> <<>>, logits |-> <<>>]

\* Transformer.__init__: build_embedding, then reset_parameters; a module is
\* in training mode when constructed.
Init ==
    /\ params \in Configs
    /\ training = TRUE
    /\ ref = BuildRef(params)
    /\ \E g \in [Blocks -> Garbage] :
          store = ResetStore(BuildRef(params), BuildStore(params, g), 0)
    /\ lastw = NoWrite
    /\ state = NoState
    /\ sess = NoSess
    /\ last = NoCall

----------------------------------------------------------------------------
(* Operations *)

\* model.train()
Train ==
    /\ ~training
    /\ training' = TRUE
    /\ UNCHANGED <<params, ref, store, lastw, state, sess, last>>

\* model.eval()
Eval ==
    /\ training
    /\ training' = FALSE
    /\ UNCHANGED <<params, ref, store, lastw, state, sess, last>>

\* state = model.empty_state(batch_size, device): the caller starts a session.
EmptyState ==
    /\ state' = empty_state(params)
    /\ sess' = NewSess
    /\ last' = Call("empty_state", "none", <<>>, "ok", state'.decoder, FALSE,
                    <<>>, <<>>, <<>>)
    /\ UNCHANGED <<params, training, ref, store, lastw>>

\* state = model.encode(features, state)
Encode(src_seq, seed) ==
    /\ state.alive
    /\ \E st \in {encode(src_seq, state, training, seed)} : state' = st
    /\ sess' = [sess EXCEPT !.source = src_seq,
                            !.clean = sess.clean /\ ~training
                                      /\ sess.n_infer + sess.n_train = 0,
                            !.fed = <<>>]
    /\ last' = Call("encode", "none", <<>>, "ok", state.decoder, state.encoded,
                    <<>>, <<>>, <<>>)
    /\ UNCHANGED <<params, training, ref, store, lastw>>

\* logits, state = model.decode(features, state, mode)
Decode(tgt_seq, mode, seed) ==
    /\ state.alive
    /\ sess.n_infer + sess.n_train < MaxCalls
    /\ \E r \in {decode(tgt_seq, state, mode, training, seed)} :
       LET clean == sess.clean /\ r.status = "ok" /\ mode = "infer" /\ ~training
       IN  /\ state' = r.state
           /\ sess' = [sess EXCEPT
                         !.n_infer = IF state.encoded /\ mode = "infer" THEN @ + 1 ELSE @,
                         !.n_train = IF state.encoded /\ mode = "train" THEN @ + 1 ELSE @,
                         !.clean = clean,
                         !.fed = IF clean THEN Append(@, tgt_seq) ELSE <<>>]
           /\ last' = Call("decode", mode, tgt_seq, r.status, state.decoder,
                           state.encoded, r.decoder_input, r.dec_attn_bias, r.logits)
    /\ UNCHANGED <<params, training, ref, store, lastw>>

\* logits = model(features): the training entry point; the state it makes
\* is its own and is dropped on return.
Forward(src_seq, tgt_seq, seed) ==
    /\ \E r \in {forward(src_seq, tgt_seq, training, seed)} :
           last' = Call("forward", "train", tgt_seq, r.status, state.decoder,
                        state.encoded, r.decoder_input, r.dec_attn_bias, r.logits)
    /\ UNCHANGED <<params, training, ref, store, lastw, state, sess>>

\* model.reset_parameters(), called again after construction.
ResetParameters ==
    /\ lastw.n + 2 <= 2 + MaxWrites
    /\ store' = ResetStore(ref, store, lastw.n)
    /\ lastw' = [name |-> "reset", val |-> lastw.n + 2,
                 before |-> [t \in TableNames |-> Read(t)], n |-> lastw.n + 2]
    /\ UNCHANGED <<params, training, ref, state, sess, last>>

\* An in-place update of one table through its name (an optimizer step on
\* that Parameter).
WriteTable(name) ==
    /\ lastw.n + 1 <= 2 + MaxWrites
    /\ store' = InitNormal(ref, store, name, lastw.n + 1)
    /\ lastw' = [name |-> name, val |-> lastw.n + 1,
                 before |-> [t \in TableNames |-> Read(t)], n |-> lastw.n + 1]
    /\ UNCHANGED <<params, training, ref, state, sess, last>>

Next ==
    \/ Train
    \/ Eval
    \/ EmptyState
    \/ \E src_seq \in Sources, seed \in SeedsNow : Encode(src_seq, seed)
    \/ \E tgt_seq \in Targets, mode \in {"infer", "train"}, seed \in SeedsNow :
          Decode(tgt_seq, mode, seed)
    \/ \E src_seq \in Sources, seed \in SeedsNow : Forward(src_seq, Sentence, seed)

\* Decoding sessions on a model built from the base_params() preset, which
\* shares no table.
InitBase ==
    /\ Init
    /\ ~params.shared_source_target_embedding
    /\ ~params.shared_embedding_and_softmax_weights

Spec == InitBase /\ [][Next]_vars

\* Construction under every configuration, and the tables afterwards.
NextParams ==
    \/ ResetParameters
    \/ \E name \in TableNames : WriteTable(name)
    \/ Eval
    \/ \E src_seq \in Sources, seed \in SeedsNow : Forward(src_seq, Sentence, seed)

SpecParams == Init /\ [][NextParams]_vars

----------------------------------------------------------------------------
(* Properties of decoding sessions, stated for Spec *)

\* One decode call with mode "train" over tgt on a freshly encoded state of
\* the source src, with dropout inactive.
TrainReference(src, tgt) ==
    decode(tgt, encode(src, empty_state(params), FALSE, 0), "train", FALSE, 0)

\* The session fed the growing prefixes of one sentence, call k the first k tokens.
PrefixFed ==
    /\ sess.fed # <<>>
    /\ \A k \in 1..Len(sess.fed) :
          Len(sess.fed[k]) = k /\ IsPrefix(sess.fed[k], Last(sess.fed))

\* The session fed the sentence one token at a time, call k the k-th token alone.
SingleFed ==
    /\ sess.fed # <<>>
    /\ \A k \in 1..Len(sess.fed) : sess.fed[k] = <<Sentence[k]>>

\* The last call was a decode of a session encoded once and then decoded
\* with mode "infer" only, all of it in eval mode, every call returning logits.
CleanDecode == last.op = "decode" /\ sess.clean

Slots(dec) == DOMAIN dec
Steps(seq) == Len(seq)

\* C1: after n inference-mode decode calls on one encoded state, call k fed
\* the prefix t0..t(k-1), the n-th call's logits are row n-1 of one
\* training-mode decode over t0..t(n-1) on a freshly encoded state.
C1_IncrementalEquivalence ==
    (CleanDecode /\ PrefixFed) =>
        last.logits = <<Last(TrainReference(sess.source, Last(sess.fed)).logits)>>

\* C1 witness: a session that fed all the prefixes of the sentence, up to the
\* full sentence, with at least one cached step behind the last call.
C1_Witness ==
    /\ CleanDecode /\ PrefixFed
    /\ Len(sess.fed) = MaxLen
    /\ last.status = "ok" /\ Len(last.logits) = 1
    /\ \A i \in Slots(last.pre) : Steps(last.pre[i].k) > 0 \/ i >= DecoderDepth(params)

\* C2: on an encoded state, after N inference-mode decode calls (and no
\* other decode call), every per-layer cache holds exactly N steps in k and
\* N in v, whatever the layer counts and the train/eval flag.
C2_CacheGrowth ==
    (state.alive /\ state.encoded /\ sess.n_train = 0) =>
        \A i \in Slots(state.decoder) :
            /\ Steps(state.decoder[i].k) = sess.n_infer
            /\ Steps(state.decoder[i].v) = sess.n_infer

\* C3 as stated: encode, forward and decode with mode "train" leave every
\* cache unchanged whatever the flag; decode with mode "infer" only appends.
C3_OnlyInferDecodeChanges ==
    /\ (last.op \in {"encode", "forward"} \/ (last.op = "decode" /\ last.mode = "train"))
          => state.decoder = last.pre
    /\ (last.op = "decode" /\ last.mode = "infer")
          => \A i \in Slots(last.pre) :
                /\ IsPrefix(last.pre[i].k, state.decoder[i].k)
                /\ IsPrefix(last.pre[i].v, state.decoder[i].v)

\* C3 amended: a cache is changed only by a decode call (of either mode)
\* made while the module is in eval mode, and then only by appending;
\* encode, forward and every decode made in training mode leave every cache
\* unchanged.
C3_OnlyEvalDecodeAppends ==
    /\ last.op \in {"encode", "forward"} => state.decoder = last.pre
    /\ (last.op = "decode" /\ last.flag) => state.decoder = last.pre
    /\ last.op = "decode"
          => /\ Slots(state.decoder) = Slots(last.pre)
             /\ \A i \in Slots(last.pre) :
                   /\ IsPrefix(last.pre[i].k, state.decoder[i].k)
                   /\ IsPrefix(last.pre[i].v, state.decoder[i].v)

\* C3 witness: a decode call with mode "train", made in eval mode, that
\* appended to a cache which already held steps.
C3_Witness ==
    /\ last.op = "decode" /\ last.mode = "train" /\ ~last.flag
    /\ \E i \in Slots(last.pre) :
          /\ Steps(last.pre[i].k) > 0
          /\ Steps(state.decoder[i].k) > Steps(last.pre[i].k)

\* The last call built a decoder input.
BuiltInput == last.op \in {"decode", "forward"} /\ last.decoder_input # <<>>

\* C4 as stated: the decoder input is zero at position 0 and the scaled
\* embedding of t(k-1) at every position k > 0; the last token's embedding
\* does not appear.
C4_ShiftRight ==
    BuiltInput =>
        /\ Len(last.decoder_input) = Len(last.tgt)
        /\ last.decoder_input[1] = Zero
        /\ \A k \in 2..Len(last.tgt) :
              last.decoder_input[k] = ScaledEmbedding(last.tgt, "target")[k - 1]
        /\ \A k \in 1..Len(last.tgt) :
              last.decoder_input[k] # ScaledEmbedding(last.tgt, "target")[Len(last.tgt)]

\* C4 amended: the decoder input is zero at position 0 and, at every
\* position k > 0, the scaled embedding of t(k) itself; the embedding of the
\* first token t0 is the one that does not appear.
C4_FirstReplacedByZero ==
    BuiltInput =>
        /\ Len(last.decoder_input) = Len(last.tgt)
        /\ last.decoder_input[1] = Zero
        /\ \A k \in 2..Len(last.tgt) :
              last.decoder_input[k] = ScaledEmbedding(last.tgt, "target")[k]
        /\ \A k \in 1..Len(last.tgt) :
              last.decoder_input[k] # ScaledEmbedding(last.tgt, "target")[1]

\* C4 witness: a decode call over the whole sentence.
C4_Witness ==
    BuiltInput /\ last.op = "decode" /\ last.mode = "train" /\ last.tgt = Sentence

\* C5 as stated: fed one token at a time, the n-th inference-mode call's
\* logits are row n-1 of the training-mode logits over t0..t(n-1).
C5_SingleTokenEquivalence ==
    (CleanDecode /\ SingleFed) =>
        last.logits =
            <<Last(TrainReference(sess.source, Prefix(Sentence, Len(sess.fed))).logits)>>

\* C5 amended: fed one token at a time, every call's decoder input is the
\* zero vector alone, whatever the token; the call's logits are row n-1 of
\* the training-mode logits for n = 1 (from the second call on the
\* equivalence needs the whole prefix, as in C1).
C5_SingleTokenSeesZero ==
    (CleanDecode /\ SingleFed) =>
        /\ last.decoder_input = <<Zero>>
        /\ Len(sess.fed) = 1 =>
              last.logits = <<Last(TrainReference(sess.source, <<Sentence[1]>>).logits)>>

\* C5 witness: three calls fed the tokens 2, 3, 4 one at a time.
C5_Witness ==
    CleanDecode /\ SingleFed /\ Len(sess.fed) = MaxLen /\ Len(last.logits) = 1

\* C6: decode on a state that empty_state made and encode has not filled
\* fails instead of returning logits and leaves the state as it was, every
\* cache still at 0 steps.
C6_DecodeBeforeEncode ==
    (last.op = "decode" /\ ~last.was_encoded) =>
        /\ last.status = "KeyError"
        /\ last.logits = <<>>
        /\ state.decoder = last.pre
        /\ state = empty_state(params)
        /\ \A i \in Slots(state.decoder) :
              Steps(state.decoder[i].k) = 0 /\ Steps(state.decoder[i].v) = 0

\* C6 witness: a decode call made in eval mode before encode.
C6_Witness ==
    last.op = "decode" /\ ~last.was_encoded /\ ~last.flag /\ last.mode = "infer"

\* C7: decode with a state whose number of cache slots differs from the
\* number of layers of the Decoder Stack fails instead of returning logits,
\* and no cache of the state has been changed.
C7_MismatchIsFatal ==
    (last.op = "decode" /\ last.was_encoded
        /\ Cardinality(Slots(last.pre)) # DecoderDepth(params)) =>
        /\ last.status # "ok"
        /\ last.logits = <<>>
        /\ state.decoder = last.pre

\* C8: causal_bias(L)[i][j] is NEG_INF, a negative constant, exactly when
\* j > i and 0 otherwise; the last row permits every key position.
C8_CausalBias ==
    (last.op \in {"decode", "forward"} /\ last.dec_attn_bias # <<>>) =>
        LET L == Len(last.tgt)
            b == last.dec_attn_bias
        IN  /\ NEG_INF < 0
            /\ Len(b) = L
            /\ \A i \in 1..L :
                  /\ Len(b[i]) = L
                  /\ \A j \in 1..L :
                        /\ b[i][j] = NEG_INF <=> j > i
                        /\ b[i][j] # NEG_INF => b[i][j] = 0
            /\ \A j \in 1..L : b[L][j] = 0

\* C8 witness: a causal bias for the longest target.
C8_Witness ==
    last.op = "decode" /\ Len(last.dec_attn_bias) = MaxLen

----------------------------------------------------------------------------
(* Properties of the tables, stated for SpecParams *)

\* What the two sharing flags say about two table names being one storage.
SharedByFlags(a, b) ==
    LET st == params.shared_source_target_embedding
        ss == params.shared_embedding_and_softmax_weights
        pair == {a, b}
    IN  \/ a = b
        \/ pair = {"source", "target"} /\ st
        \/ pair = {"target", "softmax"} /\ ss
        \/ pair = {"source", "softmax"} /\ st /\ ss

\* C9: target is the source's storage iff shared_source_target_embedding,
\* softmax is the target's storage iff shared_embedding_and_softmax_weights;
\* a write to one table is seen through every table aliased to it and
\* through no other table.
C9_AliasingFollowsFlags ==
    /\ ref["target"] = ref["source"] <=> params.shared_source_target_embedding
    /\ ref["softmax"] = ref["target"] <=> params.shared_embedding_and_softmax_weights
    /\ lastw.name \in TableNames =>
          \A t \in TableNames :
              IF SharedByFlags(lastw.name, t)
              THEN Read(t) = lastw.val /\ Read(t) # lastw.before[t]
              ELSE Read(t) = lastw.before[t] /\ Read(t) # lastw.val

\* C9 witness: a write to the target table of a model that shares target and
\* softmax but not source and target.
C9_Witness ==
    /\ lastw.name = "target"
    /\ ~params.shared_source_target_embedding
    /\ params.shared_embedding_and_softmax_weights
    /\ Read("softmax") = lastw.val

\* C10: after construction every table encode or decode reads has been given
\* values by an initializer, under every combination of the sharing flags.
C10_AllTablesInitialized ==
    \A t \in TableNames : store[ref[t]].init

====
